---- MODULE Spec2Model ----
\* AI Image Studio: the UI request orchestrator (App.tsx), the image editor's
\* upload handling and the client request layer (services/geminiService.ts),
\* as one state machine.
\*
\* The ImageEditor modelled is the one driven by App's props (part_002, lines
\* 1-242): it is the component whose props App.tsx passes, and it keeps the
\* source images in App's state. The processFiles, handleDrop and
\* handleRemoveImage of components/ImageEditor.tsx are the same code over
\* component-local state.
EXTENDS Integers, Sequences, FiniteSets, TLC

\* ---------------------------------------------------------------- bounds
MaxRequests == 3      \* generate/edit calls started in one run
MaxBatches == 2       \* upload batches accepted in one run
MaxFiles == 5         \* files in one FileList
MaxRemovals == 1      \* remove-by-index clicks in one run
MaxReadFailures == 1  \* FileReader errors in one run
MaxPromptLen == 3     \* characters of a typed prompt

\* A run explores one of seven budgets: many requests without uploads; two
\* requests over a one-file upload; concurrent multi-file uploads; one
\* request around one multi-file upload with removals; failing file reads;
\* one typed prompt before one request; one request over a failed read.
Budgets ==
  { [requests |-> MaxRequests, batches |-> 0, files |-> 0, removals |-> 0,
     readFailures |-> 0, prompts |-> 0],
    [requests |-> 2, batches |-> 1, files |-> 1, removals |-> 1,
     readFailures |-> 0, prompts |-> 0],
    [requests |-> 0, batches |-> MaxBatches, files |-> MaxFiles,
     removals |-> 0, readFailures |-> 0, prompts |-> 0],
    [requests |-> 1, batches |-> 1, files |-> MaxFiles,
     removals |-> MaxRemovals, readFailures |-> 0, prompts |-> 0],
    [requests |-> 0, batches |-> 1, files |-> 2, removals |-> 1,
     readFailures |-> MaxReadFailures, prompts |-> 0],
    [requests |-> 1, batches |-> 1, files |-> 1, removals |-> 0,
     readFailures |-> 0, prompts |-> 1],
    [requests |-> 1, batches |-> 1, files |-> 2, removals |-> 0,
     readFailures |-> 1, prompts |-> 0] }

\* ------------------------------------------------------- program constants
MaxImages == 8

Null == "null"
NoCtl == 0

CancelMsg == "Operation cancelled by user."
NoImagesMsg == "Please upload at least one image to edit."
MaxImagesMsg == "You can upload a maximum of 8 images."
InvalidFileMsg == "Please upload valid image files (PNG, JPG, etc.)."
ReadFailMsg == "Failed to read an image file."
NoUrlMsg == "Backend API did not return an image URL."
NoImageMsg == "Backend API did not return an image."

NullResult == [imageUrl |-> Null, text |-> Null]

\* A string that the program trims is a sequence of characters; a fixed
\* default prompt is one unit of text.
DefaultGeneratePrompt ==
  <<"A majestic lion wearing a crown, cinematic lighting, hyperrealistic">>
DefaultEditPrompt == <<"Improve the quality and lighting of the image.">>

VARIABLES
  mode,              \* App: active tab
  isLoading,         \* App: loading flag
  error,             \* App: displayed error, or Null
  abortController,   \* App: tracked cancellation handle, or NoCtl
  generatedImageUrl, \* App: generate result, or Null
  editedResult,      \* App: edit result, or NullResult
  generatePrompt,    \* App: the generate prompt as typed
  editPrompt,        \* App: the edit prompt as typed
  originalImages,    \* App: the source images held
  reqs,              \* the handleGenerate/handleEdit invocations, by controller
  aborted,           \* controllers on which abort() has been called
  batches,           \* accepted processFiles invocations and their readers
  budget,            \* what one run may still do (exploration budget)
  secretName,        \* api/gemini.ts: is API_KEY_SECRET_NAME set
  ai,                \* api/gemini.ts: the module-level client, or NoClient
  handlers,          \* api/gemini.ts: the invocations of handler(req)
  serviceCalls,      \* calls made to the model service
  secretFetches,     \* calls made to accessSecretVersion
  clientsBuilt,      \* GoogleGenAI clients constructed
  proxyBudget        \* what one run of the proxy may still do

promptVars == <<generatePrompt, editPrompt>>

vars == <<mode, isLoading, error, abortController, generatedImageUrl,
          editedResult, generatePrompt, editPrompt, originalImages, reqs,
          aborted, batches, budget, secretName, ai, handlers, serviceCalls,
          secretFetches, clientsBuilt, proxyBudget>>

proxyVars == <<secretName, ai, handlers, serviceCalls, secretFetches,
               clientsBuilt, proxyBudget>>

appVars == <<mode, isLoading, error, abortController, generatedImageUrl,
             editedResult, generatePrompt, editPrompt, originalImages, reqs,
             aborted, batches, budget>>

uiVars == <<mode, isLoading, error, abortController, generatedImageUrl,
            editedResult, reqs, aborted, promptVars>>
uploadVars == <<originalImages, batches, budget>>

\* new GoogleGenAI({apiKey}); NoClient is the unassigned `let ai`
Client(apiKey) == [built |-> TRUE, apiKey |-> apiKey]
NoClient == [built |-> FALSE, apiKey |-> "undefined"]

\* the proxy module right after it is loaded
ProxyLoaded ==
  /\ ai = NoClient
  /\ handlers = <<>>
  /\ serviceCalls = <<>>
  /\ secretFetches = 0
  /\ clientsBuilt = 0

AppMounted ==
  /\ mode = "GENERATE"
  /\ isLoading = FALSE
  /\ error = Null
  /\ abortController = NoCtl
  /\ generatedImageUrl = Null
  /\ editedResult = NullResult
  /\ generatePrompt = <<>>
  /\ editPrompt = <<>>
  /\ originalImages = <<>>
  /\ reqs = <<>>
  /\ aborted = {}
  /\ batches = <<>>

Init ==
  /\ AppMounted
  /\ budget \in Budgets
  /\ ProxyLoaded
  /\ secretName = TRUE
  /\ proxyBudget = [handlers |-> 0, concurrent |-> 0, full |-> FALSE,
                    parts |-> 0]

\* ------------------------------------------------------------ Tabs.tsx
SetActiveTab(tab) ==
  /\ ~isLoading
  /\ mode' = tab
  /\ UNCHANGED <<isLoading, error, abortController, generatedImageUrl,
                 editedResult, reqs, aborted, promptVars>>
  /\ UNCHANGED uploadVars
  /\ UNCHANGED proxyVars

\* ------------------------------------------------------------ App.tsx
\* Mutant of HandleStop: signals the handle and leaves the UI state to the
\* request's own failure path.
HandleStopDeferred ==
  /\ isLoading
  /\ IF abortController # NoCtl
       THEN /\ aborted' = aborted \cup {abortController}
            /\ abortController' = NoCtl
            /\ UNCHANGED <<isLoading, error>>
       ELSE UNCHANGED <<aborted, isLoading, error, abortController>>
  /\ UNCHANGED <<mode, generatedImageUrl, editedResult, reqs, promptVars>>
  /\ UNCHANGED uploadVars
  /\ UNCHANGED proxyVars

\* handleStop, reached from the Stop face of the submit button
HandleStop ==
  /\ isLoading
  /\ IF abortController # NoCtl
       THEN /\ aborted' = aborted \cup {abortController}
            /\ isLoading' = FALSE
            /\ error' = CancelMsg
            /\ abortController' = NoCtl
       ELSE UNCHANGED <<aborted, isLoading, error, abortController>>
  /\ UNCHANGED <<mode, generatedImageUrl, editedResult, reqs, promptVars>>
  /\ UNCHANGED uploadVars
  /\ UNCHANGED proxyVars

\* String.prototype.trim: white space is dropped at both ends only.
WhiteSpace == {" ", "\n"}
Chars == WhiteSpace \cup {"a"}

RECURSIVE TrimStart(_)
TrimStart(str) ==
  IF str # <<>> /\ Head(str) \in WhiteSpace THEN TrimStart(Tail(str)) ELSE str

RECURSIVE TrimEnd(_)
TrimEnd(str) ==
  IF str # <<>> /\ str[Len(str)] \in WhiteSpace
    THEN TrimEnd(SubSeq(str, 1, Len(str) - 1))
    ELSE str

Trim(str) == TrimEnd(TrimStart(str))

\* Mutant of EffectivePrompt: the default replaces the empty prompt only.
EffectivePromptUntrimmed(prompt, default) ==
  IF prompt # <<>> THEN prompt ELSE default

\* prompt.trim() || default
EffectivePrompt(prompt, default) ==
  IF Trim(prompt) # <<>> THEN Trim(prompt) ELSE default

Prompts == UNION { [1..n -> Chars] : n \in 0..MaxPromptLen }

\* the prompt textareas (setPrompt on change), disabled while loading
SetGeneratePrompt(prompt) ==
  /\ mode = "GENERATE"
  /\ ~isLoading
  /\ budget.prompts > 0
  /\ budget' = [budget EXCEPT !.prompts = @ - 1]
  /\ generatePrompt' = prompt
  /\ UNCHANGED <<mode, isLoading, error, abortController, generatedImageUrl,
                 editedResult, editPrompt, reqs, aborted, originalImages,
                 batches>>
  /\ UNCHANGED proxyVars

SetEditPrompt(prompt) ==
  /\ mode = "EDIT"
  /\ ~isLoading
  /\ budget.prompts > 0
  /\ budget' = [budget EXCEPT !.prompts = @ - 1]
  /\ editPrompt' = prompt
  /\ UNCHANGED <<mode, isLoading, error, abortController, generatedImageUrl,
                 editedResult, generatePrompt, reqs, aborted, originalImages,
                 batches>>
  /\ UNCHANGED proxyVars

\* Mutant of HandleGenerate: the new controller is not stored.
HandleGenerateUntracked ==
  /\ mode = "GENERATE"
  /\ ~isLoading
  /\ Len(reqs) < budget.requests
  /\ reqs' = Append(reqs, [kind |-> "generate", closureCtl |-> abortController,
                           status |-> "pending", result |-> Null,
                           prompt |-> EffectivePrompt(generatePrompt,
                                                      DefaultGeneratePrompt)])
  /\ isLoading' = TRUE
  /\ error' = Null
  /\ generatedImageUrl' = Null
  /\ UNCHANGED <<mode, abortController, editedResult, aborted, promptVars>>
  /\ UNCHANGED uploadVars
  /\ UNCHANGED proxyVars

\* handleGenerate up to its await: the controller is the request's index in
\* reqs; closureCtl is the abortController this render's closure holds.
HandleGenerate ==
  /\ mode = "GENERATE"
  /\ ~isLoading
  /\ Len(reqs) < budget.requests
  /\ reqs' = Append(reqs, [kind |-> "generate", closureCtl |-> abortController,
                           status |-> "pending", result |-> Null,
                           prompt |-> EffectivePrompt(generatePrompt,
                                                      DefaultGeneratePrompt)])
  /\ abortController' = Len(reqs) + 1
  /\ isLoading' = TRUE
  /\ error' = Null
  /\ generatedImageUrl' = Null
  /\ UNCHANGED <<mode, editedResult, aborted, promptVars>>
  /\ UNCHANGED uploadVars
  /\ UNCHANGED proxyVars

\* Mutant of HandleEdit: no check that an image is held.
HandleEditUnchecked ==
  /\ mode = "EDIT"
  /\ ~isLoading
  /\ Len(reqs) < budget.requests
  /\ reqs' = Append(reqs, [kind |-> "edit", closureCtl |-> abortController,
                           status |-> "pending", result |-> Null,
                           prompt |-> EffectivePrompt(editPrompt,
                                                      DefaultEditPrompt)])
  /\ abortController' = Len(reqs) + 1
  /\ isLoading' = TRUE
  /\ error' = Null
  /\ editedResult' = NullResult
  /\ UNCHANGED <<mode, generatedImageUrl, aborted, promptVars>>
  /\ UNCHANGED uploadVars
  /\ UNCHANGED proxyVars

\* img.dataUrl.split(',') of an image whose read failed (dataUrl null)
SplitNullMsg == "Cannot read properties of null (reading 'split')"

\* handleEdit up to its await, or its early return when no image is held.
\* The button that calls it is disabled while no image is held; the handler
\* keeps its own check, and the action is the handler, however it is called.
\* Building the payload throws when a held image has no data URL: the catch
\* and finally blocks then run before any network call is made.
HandleEdit ==
  /\ mode = "EDIT"
  /\ ~isLoading
  /\ IF Len(originalImages) = 0
       THEN /\ error' = NoImagesMsg
            /\ UNCHANGED <<reqs, abortController, isLoading, editedResult>>
       ELSE IF \E i \in DOMAIN originalImages :
                 originalImages[i].dataUrl = Null
       THEN /\ Len(reqs) < budget.requests
            /\ reqs' = Append(reqs, [kind |-> "edit",
                                     closureCtl |-> abortController,
                                     status |-> "done",
                                     result |-> "TypeError",
                                     prompt |->
                                       EffectivePrompt(editPrompt,
                                                       DefaultEditPrompt)])
            /\ abortController' = Len(reqs) + 1
            /\ isLoading' = FALSE
            /\ error' = SplitNullMsg
            /\ editedResult' = NullResult
       ELSE /\ Len(reqs) < budget.requests
            /\ reqs' = Append(reqs, [kind |-> "edit",
                                     closureCtl |-> abortController,
                                     status |-> "pending", result |-> Null,
                                     prompt |->
                                       EffectivePrompt(editPrompt,
                                                       DefaultEditPrompt)])
            /\ abortController' = Len(reqs) + 1
            /\ isLoading' = TRUE
            /\ error' = Null
            /\ editedResult' = NullResult
  /\ UNCHANGED <<mode, generatedImageUrl, aborted, promptVars>>
  /\ UNCHANGED uploadVars
  /\ UNCHANGED proxyVars

\* ----------------------------------------------- services/geminiService.ts
\* What fetch(API_ENDPOINT, {method, headers, body}) ends with: a rejection
\* (transport failure) or a Response. No signal is passed to fetch, so the
\* set has no AbortError rejection.
FetchResponse(status, jsonType, bodyJson, bodyError, imageUrl, text) ==
  [rejects |-> FALSE, status |-> status, jsonType |-> jsonType,
   bodyJson |-> bodyJson, bodyError |-> bodyError, imageUrl |-> imageUrl,
   text |-> text]

FetchReject ==
  [rejects |-> TRUE, status |-> 0, jsonType |-> FALSE, bodyJson |-> FALSE,
   bodyError |-> Null, imageUrl |-> Null, text |-> Null]

TransportMsg == "Failed to fetch"
JsonParseMsg == "Unexpected token < in JSON at position 0"
SampleUrl == "data:image/png;base64,AAAA"
SampleText == "note1\nnote2"

FetchOutcomes ==
  { FetchReject,
    FetchResponse(200, TRUE, TRUE, Null, SampleUrl, SampleText),
    FetchResponse(200, FALSE, TRUE, Null, SampleUrl, SampleText),
    FetchResponse(200, TRUE, TRUE, Null, Null, Null),
    FetchResponse(500, TRUE, TRUE, "model declined", Null, Null),
    FetchResponse(500, FALSE, FALSE, Null, Null, Null),
    FetchResponse(400, TRUE, TRUE, "", Null, Null) }

Thrown(name, message) ==
  [throws |-> TRUE, name |-> name, message |-> message,
   imageUrl |-> Null, text |-> Null]

Returned(imageUrl, text) ==
  [throws |-> FALSE, name |-> Null, message |-> Null,
   imageUrl |-> imageUrl, text |-> text]

ResponseOk(status) == status >= 200 /\ status <= 299

Truthy(v) == v # Null /\ v # ""

\* Mutant of handleApiResponse: the error body is not read.
handleApiResponseStatusOnly(response) ==
  IF ~ResponseOk(response.status)
    THEN Thrown("Error", "Request failed with status "
                           \o ToString(response.status))
    ELSE IF response.jsonType
           THEN IF response.bodyJson
                  THEN Returned(response.imageUrl, response.text)
                  ELSE Thrown("SyntaxError", JsonParseMsg)
           ELSE Returned(Null, Null)

handleApiResponse(response) ==
  IF ~ResponseOk(response.status)
    THEN IF response.bodyJson /\ Truthy(response.bodyError)
           THEN Thrown("Error", response.bodyError)
           ELSE Thrown("Error", "Request failed with status "
                                  \o ToString(response.status))
    ELSE IF response.jsonType
           THEN IF response.bodyJson
                  THEN Returned(response.imageUrl, response.text)
                  ELSE Thrown("SyntaxError", JsonParseMsg)
           \* the Response object itself is returned: it has no imageUrl
           ELSE Returned(Null, Null)

generateImage(outcome) ==
  IF outcome.rejects
    THEN Thrown("TypeError", TransportMsg)
    ELSE LET data == handleApiResponse(outcome)
         IN IF data.throws THEN data
            ELSE IF ~Truthy(data.imageUrl) THEN Thrown("Error", NoUrlMsg)
            ELSE Returned(data.imageUrl, Null)

editImage(outcome) ==
  IF outcome.rejects
    THEN Thrown("TypeError", TransportMsg)
    ELSE LET data == handleApiResponse(outcome)
         IN IF data.throws THEN data
            ELSE IF ~Truthy(data.imageUrl) THEN Thrown("Error", NoImageMsg)
            ELSE data

\* ------------------------------------------------------------ App.tsx
\* Mutant of CompleteRequest: isLoading is reset at the end of the try block
\* instead of in finally.
CompleteRequestNoFinally(r, outcome) ==
  /\ r \in DOMAIN reqs
  /\ reqs[r].status = "pending"
  /\ LET res == IF reqs[r].kind = "generate" THEN generateImage(outcome)
                ELSE editImage(outcome)
     IN /\ IF res.throws
             THEN /\ error' = IF res.name = "AbortError" THEN error
                              ELSE res.message
                  /\ UNCHANGED <<generatedImageUrl, editedResult>>
             ELSE /\ IF reqs[r].kind = "generate"
                       THEN /\ generatedImageUrl' = res.imageUrl
                            /\ UNCHANGED editedResult
                       ELSE /\ editedResult' = [imageUrl |-> res.imageUrl,
                                                text |-> res.text]
                            /\ UNCHANGED generatedImageUrl
                  /\ UNCHANGED error
  /\ isLoading' = IF (IF reqs[r].kind = "generate" THEN generateImage(outcome)
                       ELSE editImage(outcome)).throws
                    THEN isLoading ELSE FALSE
  /\ abortController' = IF reqs[r].closureCtl = r THEN NoCtl
                        ELSE abortController
  /\ LET res == IF reqs[r].kind = "generate" THEN generateImage(outcome)
                ELSE editImage(outcome)
     IN reqs' = [reqs EXCEPT ![r].status = "done",
                             ![r].result = IF res.throws THEN res.name
                                           ELSE "returned"]
  /\ UNCHANGED <<mode, aborted, promptVars>>
  /\ UNCHANGED uploadVars
  /\ UNCHANGED proxyVars

\* The rest of handleGenerate/handleEdit after the await: try, catch, finally.
CompleteRequest(r, outcome) ==
  /\ r \in DOMAIN reqs
  /\ reqs[r].status = "pending"
  /\ LET res == IF reqs[r].kind = "generate" THEN generateImage(outcome)
                ELSE editImage(outcome)
     IN /\ IF res.throws
             THEN /\ error' = IF res.name = "AbortError" THEN error
                              ELSE res.message
                  /\ UNCHANGED <<generatedImageUrl, editedResult>>
             ELSE /\ IF reqs[r].kind = "generate"
                       THEN /\ generatedImageUrl' = res.imageUrl
                            /\ UNCHANGED editedResult
                       ELSE /\ editedResult' = [imageUrl |-> res.imageUrl,
                                                text |-> res.text]
                            /\ UNCHANGED generatedImageUrl
                  /\ UNCHANGED error
  /\ isLoading' = FALSE
  /\ abortController' = IF reqs[r].closureCtl = r THEN NoCtl
                        ELSE abortController
  /\ LET res == IF reqs[r].kind = "generate" THEN generateImage(outcome)
                ELSE editImage(outcome)
     IN reqs' = [reqs EXCEPT ![r].status = "done",
                             ![r].result = IF res.throws THEN res.name
                                           ELSE "returned"]
  /\ UNCHANGED <<mode, aborted, promptVars>>
  /\ UNCHANGED uploadVars
  /\ UNCHANGED proxyVars

\* ------------------------------------- ImageEditor (part_002, lines 1-242)
\* A file's MIME type is <<type, subtype>>; a FileList is a sequence of them.
IsImageType(t) == t[1] = "image"

FileLists ==
  { [i \in 1..k |-> <<"image", "png">>] : k \in 0..budget.files }
    \cup { [i \in 1..k |-> IF i = 1 THEN <<"text", "plain">>
                           ELSE <<"image", "png">>] :
            k \in 1..(IF budget.files < 2 THEN budget.files ELSE 2) }

ImageFiles(files) == { i \in DOMAIN files : IsImageType(files[i]) }

ReadDataUrl == "data:image/png;base64,QUJD"

\* Mutant of processFiles: the size check looks at the new files only.
processFilesBatchOnly(files) ==
  IF Len(files) = 0
    THEN UNCHANGED <<error, editedResult, batches>>
    ELSE IF Len(files) > MaxImages
      THEN /\ error' = MaxImagesMsg
           /\ UNCHANGED <<editedResult, batches>>
      ELSE /\ Len(batches) < budget.batches
           /\ error' = IF ImageFiles(files) # DOMAIN files THEN InvalidFileMsg
                       ELSE Null
           /\ editedResult' = NullResult
           /\ batches' = Append(batches,
                                [nfiles |-> Len(files),
                                 pending |-> Cardinality(ImageFiles(files)),
                                 newImages |-> <<>>])

\* processFiles: the size check, then one FileReader per image-typed file.
\* A batch keeps files.length, the readers still running, and newImages.
processFiles(files) ==
  IF Len(files) = 0
    THEN UNCHANGED <<error, editedResult, batches>>
    ELSE IF Len(originalImages) + Len(files) > MaxImages
      THEN /\ error' = MaxImagesMsg
           /\ UNCHANGED <<editedResult, batches>>
      ELSE /\ Len(batches) < budget.batches
           /\ error' = IF ImageFiles(files) # DOMAIN files THEN InvalidFileMsg
                       ELSE Null
           /\ editedResult' = NullResult
           /\ batches' = Append(batches,
                                [nfiles |-> Len(files),
                                 pending |-> Cardinality(ImageFiles(files)),
                                 newImages |-> <<>>])

\* the file input's change handler; the input is disabled while loading
HandleFileChange(files) ==
  /\ mode = "EDIT"
  /\ ~isLoading
  /\ processFiles(files)
  /\ UNCHANGED <<mode, isLoading, abortController, generatedImageUrl, reqs,
                 aborted, originalImages, budget, promptVars>>
  /\ UNCHANGED proxyVars

\* the drop zone's handler
HandleDrop(files) ==
  /\ mode = "EDIT"
  /\ IF Len(files) > 0 THEN processFiles(files)
     ELSE UNCHANGED <<error, editedResult, batches>>
  /\ UNCHANGED <<mode, isLoading, abortController, generatedImageUrl, reqs,
                 aborted, originalImages, budget, promptVars>>
  /\ UNCHANGED proxyVars

\* Mutant of ReaderLoadEnd: each image is appended as soon as it is read.
ReaderLoadEndEach(b, ok) ==
  /\ b \in DOMAIN batches
  /\ batches[b].pending > 0
  /\ ok \/ budget.readFailures > 0
  /\ budget' = IF ok THEN budget ELSE [budget EXCEPT !.readFailures = @ - 1]
  /\ error' = IF ok THEN error ELSE ReadFailMsg
  /\ LET newImages == Append(batches[b].newImages,
                             [batch |-> b,
                              dataUrl |-> IF ok THEN ReadDataUrl ELSE Null])
     IN /\ batches' = [batches EXCEPT ![b].pending = @ - 1,
                                      ![b].newImages = newImages]
        /\ originalImages' = Append(originalImages,
                                    newImages[Len(newImages)])
  /\ UNCHANGED <<mode, isLoading, abortController, generatedImageUrl,
                 editedResult, reqs, aborted, promptVars>>
  /\ UNCHANGED proxyVars

\* One reader of batch b finishes: onerror (when the read failed), then
\* onloadend, which pushes to newImages and appends the batch once
\* newImages.length equals files.length.
ReaderLoadEnd(b, ok) ==
  /\ b \in DOMAIN batches
  /\ batches[b].pending > 0
  /\ ok \/ budget.readFailures > 0
  /\ budget' = IF ok THEN budget ELSE [budget EXCEPT !.readFailures = @ - 1]
  /\ error' = IF ok THEN error ELSE ReadFailMsg
  /\ LET newImages == Append(batches[b].newImages,
                             [batch |-> b,
                              dataUrl |-> IF ok THEN ReadDataUrl ELSE Null])
     IN /\ batches' = [batches EXCEPT ![b].pending = @ - 1,
                                      ![b].newImages = newImages]
        /\ originalImages' = IF Len(newImages) = batches[b].nfiles
                               THEN originalImages \o newImages
                               ELSE originalImages
  /\ UNCHANGED <<mode, isLoading, abortController, generatedImageUrl,
                 editedResult, reqs, aborted, promptVars>>
  /\ UNCHANGED proxyVars

RemoveAt(seq, i) == [j \in 1..(Len(seq) - 1) |-> IF j < i THEN seq[j]
                                                 ELSE seq[j + 1]]

\* the remove button of the image at (1-based) position indexToRemove
HandleRemoveImage(indexToRemove) ==
  /\ mode = "EDIT"
  /\ indexToRemove \in DOMAIN originalImages
  /\ budget.removals > 0
  /\ budget' = [budget EXCEPT !.removals = @ - 1]
  /\ originalImages' = RemoveAt(originalImages, indexToRemove)
  /\ UNCHANGED batches
  /\ UNCHANGED uiVars
  /\ UNCHANGED proxyVars

Next ==
  \/ \E tab \in {"GENERATE", "EDIT"} : SetActiveTab(tab)
  \/ HandleStop
  \/ HandleGenerate
  \/ HandleEdit
  \/ \E r \in DOMAIN reqs, o \in FetchOutcomes : CompleteRequest(r, o)
  \/ \E files \in FileLists : HandleFileChange(files)
  \/ \E files \in FileLists : HandleDrop(files)
  \/ \E b \in DOMAIN batches, ok \in BOOLEAN : ReaderLoadEnd(b, ok)
  \/ \E i \in DOMAIN originalImages : HandleRemoveImage(i)
  \/ \E prompt \in Prompts : SetGeneratePrompt(prompt)
  \/ \E prompt \in Prompts : SetEditPrompt(prompt)

Spec == Init /\ [][Next]_vars

\* ------------------------------------------------------- api/gemini.ts
\* The proxy handler. One handler(req) invocation runs to its first await of
\* an external call (the secret store or the model service), is resumed by
\* that call's outcome and ends with a Response. Invocations interleave at
\* those awaits; the module-level client ai is shared by all of them.
MaxHandlers == 2
MaxParts == 2

ProxyBudgets ==
  { [handlers |-> MaxHandlers, concurrent |-> MaxHandlers, full |-> FALSE,
     parts |-> 1],
    [handlers |-> 1, concurrent |-> 1, full |-> TRUE, parts |-> MaxParts],
    [handlers |-> 2, concurrent |-> 1, full |-> TRUE, parts |-> 1] }

Undefined == "undefined"

NoSecretNameMsg ==
  "The API_KEY_SECRET_NAME environment variable is not set. Please configure it in your deployment environment."
SecretFailMsg == "Failed to access API key from Secret Manager."
NoGeneratedImageMsg == "Image generation failed or returned no data."
InvalidResponseMsg == "Invalid response from API."
NoInlineImageMsg == "API did not return an image."
PromptRequiredMsg == "Prompt is required"
EditFieldsRequiredMsg == "Prompt, images, and aspectRatio are required"
InvalidActionMsg == "Invalid action"
UnknownErrorMsg == "An unknown internal server error occurred."
BodyParseMsg == "Unexpected end of JSON input"
BodyNullMsg ==
  "Cannot destructure property 'action' of 'body' as it is null."
ServiceFailMsg == "503 Service Unavailable"

\* A request body: text that is not JSON, the JSON value null, or a JSON
\* object whose fields may be missing (Undefined). images is a list or
\* missing.
RequestBody(kind, action, prompt, images, aspectRatio) ==
  [kind |-> kind, action |-> action, prompt |-> prompt, images |-> images,
   aspectRatio |-> aspectRatio]

NoImages == [defined |-> FALSE, items |-> <<>>]
ImageList(items) == [defined |-> TRUE, items |-> items]
SampleImage == [base64Data |-> "AAAA", mimeType |-> "image/png"]

ProxyRequest(method, body) == [method |-> method, body |-> body]

BodyWithAction(action) ==
  RequestBody("object", action, Undefined, NoImages, Undefined)

GenerateBodies ==
  { RequestBody("object", "generate", prompt, NoImages, Undefined) :
      prompt \in {Undefined, "", "a cat"} }

EditBodies ==
  { RequestBody("object", "edit", prompt, images, aspectRatio) :
      prompt \in {Undefined, "", "add a hat"},
      images \in {NoImages, ImageList(<<>>), ImageList(<<SampleImage>>)},
      aspectRatio \in {Undefined, "1:1", "16:9"} }

RequestsFull ==
  { ProxyRequest("GET", BodyWithAction(Undefined)) }
    \cup { ProxyRequest("POST", body) :
             body \in { RequestBody("text", Undefined, Undefined, NoImages,
                                    Undefined),
                        RequestBody("null", Undefined, Undefined, NoImages,
                                    Undefined),
                        BodyWithAction(Undefined),
                        BodyWithAction("delete") }
                        \cup GenerateBodies \cup EditBodies }

RequestsSmall ==
  { ProxyRequest("GET", BodyWithAction(Undefined)),
    ProxyRequest("POST", RequestBody("object", "generate", "a cat", NoImages,
                                     Undefined)),
    ProxyRequest("POST", RequestBody("object", "edit", "add a hat",
                                     ImageList(<<SampleImage>>), "16:9")) }

Requests == IF proxyBudget.full THEN RequestsFull ELSE RequestsSmall

\* new Response(JSON.stringify(body), {status, headers})
ProxyResponse(status, allow, contentType, bodyError, imageUrl, text) ==
  [status |-> status, allow |-> allow, contentType |-> contentType,
   error |-> bodyError, imageUrl |-> imageUrl, text |-> text]

NoResponse ==
  ProxyResponse(0, Undefined, Undefined, Undefined, Undefined, Undefined)

\* Mutant of ErrorResponse: the thrown value's message is used whatever was
\* thrown.
ErrorResponseMessageOnly(thrown) ==
  [status |-> 500, allow |-> Undefined, contentType |-> "application/json",
   error |-> thrown.message, imageUrl |-> Undefined, text |-> Undefined]

\* the catch block of handler: 500 with the thrown Error's message
ErrorResponse(thrown) ==
  ProxyResponse(500, Undefined, "application/json",
                IF thrown.isError THEN thrown.message ELSE UnknownErrorMsg,
                Undefined, Undefined)

ThrownError(message) == [isError |-> TRUE, message |-> message]
ThrownValue == [isError |-> FALSE, message |-> Undefined]

\* What a step of handler ends with: the Response it returns, or the model
\* service call it now awaits.
Responds(resp) == [responds |-> TRUE, resp |-> resp, call |-> Undefined]
Calls(call) == [responds |-> FALSE, resp |-> NoResponse, call |-> call]

Falsy(str) == str \in {Undefined, ""}

\* Mutant of GenerateImagesCall: four images are requested.
GenerateImagesCallFour(prompt) ==
  [api |-> "generateImages", model |-> "imagen-4.0-generate-001",
   prompt |-> prompt, numberOfImages |-> 4, imageParts |-> 0]

\* generateImage up to its await: ai.models.generateImages({...}); for
\* generateContent numberOfImages is not part of the call (0)
GenerateImagesCall(prompt) ==
  [api |-> "generateImages", model |-> "imagen-4.0-generate-001",
   prompt |-> prompt, numberOfImages |-> 1, imageParts |-> 0]

\* editImage up to its await: ai.models.generateContent({...})
GenerateContentCall(prompt, images, aspectRatio) ==
  [api |-> "generateContent", model |-> "gemini-2.5-flash-image-preview",
   prompt |-> IF aspectRatio # "1:1"
                THEN prompt \o "\n\nEnsure the output image has a "
                       \o aspectRatio \o " aspect ratio."
                ELSE prompt,
   numberOfImages |-> 0, imageParts |-> Len(images.items)]

\* case 'generate' of handlePost, up to the service call
HandleGenerateAction(body) ==
  IF Falsy(body.prompt)
    THEN Responds(ProxyResponse(400, Undefined, Undefined, PromptRequiredMsg,
                                Undefined, Undefined))
    ELSE Calls(GenerateImagesCall(body.prompt))

\* case 'edit' of handlePost, up to the service call
HandleEditAction(body) ==
  IF Falsy(body.prompt) \/ ~body.images.defined \/ Falsy(body.aspectRatio)
    THEN Responds(ProxyResponse(400, Undefined, Undefined,
                                EditFieldsRequiredMsg, Undefined, Undefined))
    ELSE Calls(GenerateContentCall(body.prompt, body.images,
                                   body.aspectRatio))

\* Mutant of handlePost: the switch has no default case and falls back to
\* generating from the body's action.
handlePostNoDefault(req) ==
  LET body == req.body IN
  IF body.kind = "text" THEN Responds(ErrorResponse(ThrownError(BodyParseMsg)))
  ELSE IF body.kind = "null"
    THEN Responds(ErrorResponse(ThrownError(BodyNullMsg)))
  ELSE IF body.action = "generate" THEN HandleGenerateAction(body)
  ELSE IF body.action = "edit" THEN HandleEditAction(body)
  ELSE Calls(GenerateImagesCall(body.action))

\* handlePost up to the service call: req.json(), then the switch on action
handlePost(req) ==
  LET body == req.body IN
  IF body.kind = "text" THEN Responds(ErrorResponse(ThrownError(BodyParseMsg)))
  ELSE IF body.kind = "null"
    THEN Responds(ErrorResponse(ThrownError(BodyNullMsg)))
  ELSE IF body.action = "generate" THEN HandleGenerateAction(body)
  ELSE IF body.action = "edit" THEN HandleEditAction(body)
  ELSE Responds(ProxyResponse(400, Undefined, Undefined, InvalidActionMsg,
                              Undefined, Undefined))

\* Mutant of RouteRequest: the 405 message names the credential in use.
RouteRequestWithKey(req) ==
  IF req.method = "POST"
    THEN handlePost(req)
    ELSE Responds(ProxyResponse(405, "POST", "application/json",
                                "Method " \o req.method \o " not allowed for "
                                  \o ai.apiKey,
                                Undefined, Undefined))

\* Mutant of RouteRequest: the method is not looked at.
RouteRequestAnyMethod(req) == handlePost(req)

\* handler after ensureAiClientInitialized has returned
RouteRequest(req) ==
  IF req.method = "POST"
    THEN handlePost(req)
    ELSE Responds(ProxyResponse(405, "POST", "application/json",
                                "Method " \o req.method \o " not allowed",
                                Undefined, Undefined))

\* What the model service call ends with. generateImages: a rejection or a
\* list of generated images; generateContent: a rejection, an answer without
\* content parts, or the parts of the first candidate.
ServiceAnswer(thrown, generatedImages, hasParts, parts) ==
  [rejects |-> FALSE, thrown |-> thrown, generatedImages |-> generatedImages,
   hasParts |-> hasParts, parts |-> parts]

ServiceRejects(thrown) ==
  [rejects |-> TRUE, thrown |-> thrown, generatedImages |-> <<>>,
   hasParts |-> FALSE, parts |-> <<>>]

InlinePart(mimeType, data) ==
  [hasInline |-> TRUE, mimeType |-> mimeType, data |-> data,
   text |-> Undefined]
TextPart(text) ==
  [hasInline |-> FALSE, mimeType |-> Undefined, data |-> Undefined,
   text |-> text]

Parts ==
  { InlinePart("image/png", "BBBB"), InlinePart("image/jpeg", "CCCC"),
    TextPart("note1"), TextPart("note2"), TextPart("") }

PartLists(maxParts) == UNION { [1..n -> Parts] : n \in 0..maxParts }

ServiceRejections ==
  { ServiceRejects(ThrownError(ServiceFailMsg)), ServiceRejects(ThrownValue) }

GenerateAnswers ==
  ServiceRejections
    \cup { ServiceAnswer(ThrownValue, images, FALSE, <<>>) :
             images \in { <<>>, <<[imageBytes |-> Undefined]>>,
                          <<[imageBytes |-> ""]>>,
                          <<[imageBytes |-> "AAAA"]>> } }

EditAnswers(maxParts) ==
  ServiceRejections
    \cup { ServiceAnswer(ThrownValue, <<>>, FALSE, <<>>) }
    \cup { ServiceAnswer(ThrownValue, <<>>, TRUE, parts) :
             parts \in PartLists(maxParts) }

\* Mutant of ProxyGenerateImage: the image bytes are not checked.
ProxyGenerateImageUnchecked(answer) ==
  IF answer.rejects THEN ErrorResponse(answer.thrown)
  ELSE ProxyResponse(200, Undefined, Undefined, Undefined,
                     "data:image/png;base64,"
                       \o (IF Len(answer.generatedImages) = 0 THEN Undefined
                           ELSE answer.generatedImages[1].imageBytes),
                     Undefined)

\* generateImage after its await, then handlePost's 200 response, or the
\* catch block of handler
ProxyGenerateImage(answer) ==
  IF answer.rejects THEN ErrorResponse(answer.thrown)
  ELSE IF \/ Len(answer.generatedImages) = 0
          \/ Falsy(answer.generatedImages[1].imageBytes)
    THEN ErrorResponse(ThrownError(NoGeneratedImageMsg))
  ELSE ProxyResponse(200, Undefined, Undefined, Undefined,
                     "data:image/png;base64,"
                       \o answer.generatedImages[1].imageBytes,
                     Undefined)

\* the loop over candidate.content.parts, from part i on
RECURSIVE CollectParts(_, _, _, _)
CollectParts(parts, i, imageUrl, text) ==
  IF i > Len(parts) THEN [imageUrl |-> imageUrl, text |-> text]
  ELSE LET part == parts[i] IN
       IF part.hasInline
         THEN CollectParts(parts, i + 1,
                           "data:" \o part.mimeType \o ";base64,"
                             \o part.data,
                           text)
       ELSE IF ~Falsy(part.text)
         THEN CollectParts(parts, i + 1, imageUrl,
                           (IF text \notin {Null, ""} THEN text \o "\n"
                            ELSE "") \o part.text)
       ELSE CollectParts(parts, i + 1, imageUrl, text)

\* editImage after its await, then handlePost's 200 response, or the catch
\* block of handler
ProxyEditImage(answer) ==
  IF answer.rejects THEN ErrorResponse(answer.thrown)
  ELSE IF ~answer.hasParts THEN ErrorResponse(ThrownError(InvalidResponseMsg))
  ELSE LET result == CollectParts(answer.parts, 1, Null, Null) IN
       IF result.imageUrl \in {Null, ""}
         THEN ErrorResponse(ThrownError(NoInlineImageMsg))
         ELSE ProxyResponse(200, Undefined, Undefined, Undefined,
                            result.imageUrl, result.text)

NoAnswer == ServiceRejects(ThrownValue)

Running == { h \in DOMAIN handlers : handlers[h].pc # "done" }

\* a handler step that ends with `outcome`: return the Response or make the
\* service call and await it
Continue(h, hs, outcome) ==
  IF outcome.responds
    THEN /\ handlers' = [hs EXCEPT ![h].pc = "done",
                                   ![h].resp = outcome.resp]
         /\ UNCHANGED serviceCalls
    ELSE /\ handlers' = [hs EXCEPT ![h].pc = "service"]
         /\ serviceCalls' = Append(serviceCalls,
                                   [handler |-> h, call |-> outcome.call,
                                    apiKey |-> hs[h].client.apiKey])

\* Mutant of HandlerStart: without a secret name the request is routed all
\* the same.
HandlerStartNoInit(req) ==
  /\ Len(handlers) < proxyBudget.handlers
  /\ Cardinality(Running) < proxyBudget.concurrent
  /\ LET h == Len(handlers) + 1
         new == [req |-> req, pc |-> "start", initialised |-> FALSE,
                 client |-> NoClient, resp |-> NoResponse,
                 answer |-> NoAnswer]
     IN IF ai # NoClient
          THEN /\ Continue(h, Append(handlers,
                                     [new EXCEPT !.initialised = TRUE,
                                                 !.client = ai]),
                           RouteRequest(req))
               /\ UNCHANGED secretFetches
        ELSE IF ~secretName
          THEN /\ Continue(h, Append(handlers, new), RouteRequest(req))
               /\ UNCHANGED secretFetches
        ELSE /\ handlers' = Append(handlers, [new EXCEPT !.pc = "secret"])
             /\ secretFetches' = secretFetches + 1
             /\ UNCHANGED serviceCalls
  /\ UNCHANGED <<secretName, ai, clientsBuilt, proxyBudget>>
  /\ UNCHANGED appVars

\* handler(req) is invoked: ensureAiClientInitialized up to its await of the
\* secret store (getApiKey), or, with the client present, on to the routing
HandlerStart(req) ==
  /\ Len(handlers) < proxyBudget.handlers
  /\ Cardinality(Running) < proxyBudget.concurrent
  /\ LET h == Len(handlers) + 1
         new == [req |-> req, pc |-> "start", initialised |-> FALSE,
                 client |-> NoClient, resp |-> NoResponse,
                 answer |-> NoAnswer]
     IN IF ai # NoClient
          THEN /\ Continue(h, Append(handlers,
                                     [new EXCEPT !.initialised = TRUE,
                                                 !.client = ai]),
                           RouteRequest(req))
               /\ UNCHANGED secretFetches
        ELSE IF ~secretName
          THEN /\ Continue(h, Append(handlers, new),
                           Responds(ErrorResponse(
                                      ThrownError(NoSecretNameMsg))))
               /\ UNCHANGED secretFetches
        ELSE /\ handlers' = Append(handlers, [new EXCEPT !.pc = "secret"])
             /\ secretFetches' = secretFetches + 1
             /\ UNCHANGED serviceCalls
  /\ UNCHANGED <<secretName, ai, clientsBuilt, proxyBudget>>
  /\ UNCHANGED appVars

\* What accessSecretVersion ends with: a payload holding a key, an empty
\* payload, or a rejection.
ApiKeys == {"key-A", "key-B"}

SecretOutcomes ==
  { [kind |-> "key", apiKey |-> k] : k \in ApiKeys }
    \cup { [kind |-> "empty", apiKey |-> ""],
           [kind |-> "rejects", apiKey |-> Undefined] }

\* accessSecretVersion ends: getApiKey returns the key or throws; with a key
\* the client is constructed and the request is routed
SecretDone(h, outcome) ==
  /\ h \in DOMAIN handlers
  /\ handlers[h].pc = "secret"
  /\ IF outcome.kind = "key"
       THEN /\ ai' = Client(outcome.apiKey)
            /\ clientsBuilt' = clientsBuilt + 1
            /\ Continue(h, [handlers EXCEPT
                              ![h].initialised = TRUE,
                              ![h].client = Client(outcome.apiKey)],
                        RouteRequest(handlers[h].req))
       ELSE /\ Continue(h, handlers,
                        Responds(ErrorResponse(ThrownError(SecretFailMsg))))
            /\ UNCHANGED <<ai, clientsBuilt>>
  /\ UNCHANGED <<secretName, secretFetches, proxyBudget>>
  /\ UNCHANGED appVars

CallOf(h) ==
  (CHOOSE c \in { serviceCalls[i] : i \in DOMAIN serviceCalls } :
     c.handler = h).call

Answers(h) ==
  IF CallOf(h).api = "generateImages" THEN GenerateAnswers
  ELSE EditAnswers(proxyBudget.parts)

\* the model service call of handler h ends
ServiceDone(h, answer) ==
  /\ h \in DOMAIN handlers
  /\ handlers[h].pc = "service"
  /\ answer \in Answers(h)
  /\ handlers' = [handlers EXCEPT
                    ![h].pc = "done",
                    ![h].resp = IF CallOf(h).api = "generateImages"
                                  THEN ProxyGenerateImage(answer)
                                  ELSE ProxyEditImage(answer),
                    ![h].answer = answer]
  /\ UNCHANGED <<secretName, ai, serviceCalls, secretFetches, clientsBuilt,
                 proxyBudget>>
  /\ UNCHANGED appVars

InitProxy ==
  /\ AppMounted
  /\ budget = [requests |-> 0, batches |-> 0, files |-> 0, removals |-> 0,
               readFailures |-> 0, prompts |-> 0]
  /\ ProxyLoaded
  /\ secretName \in BOOLEAN
  /\ proxyBudget \in ProxyBudgets

NextProxy ==
  \/ \E req \in Requests : HandlerStart(req)
  \/ \E h \in DOMAIN handlers, outcome \in SecretOutcomes :
       SecretDone(h, outcome)
  \/ \E h \in { i \in DOMAIN handlers : handlers[i].pc = "service" } :
       \E answer \in Answers(h) : ServiceDone(h, answer)

SpecProxy == InitProxy /\ [][NextProxy]_vars

\* ------------------------------------------------------------ properties
Completes(r) ==
  r \in DOMAIN reqs /\ reqs[r].status = "pending" /\ reqs'[r].status = "done"

Unstopped == { r \in DOMAIN reqs : reqs[r].status = "pending" /\ r \notin aborted }

\* C1: when a stopped request A completes while a later request B is tracked
\* and still in flight, isLoading stays true.
C1_SupersededKeepsLoading ==
  [][\A a \in DOMAIN reqs :
       (/\ Completes(a)
        /\ a \in aborted
        /\ abortController \in Unstopped
        /\ isLoading) => isLoading']_vars

\* C2: a request that completes when its controller is not the tracked one
\* (it was stopped or superseded) changes none of generatedImageUrl,
\* editedResult and error.
C2_StaleOutcomeDiscarded ==
  [][\A r \in DOMAIN reqs :
       (Completes(r) /\ abortController # r)
         => UNCHANGED <<generatedImageUrl, editedResult, error>>]_vars

\* C3: a stop with a tracked handle leaves, in the very next state,
\* isLoading false, the cancellation message as error, no tracked handle and
\* the formerly tracked handle aborted, while that handle's network call is
\* still unresolved.
C3_StopImmediate ==
  [][(abortController # NoCtl /\ HandleStop)
       => /\ isLoading' = FALSE
          /\ error' = CancelMsg
          /\ abortController' = NoCtl
          /\ abortController \in aborted'
          /\ abortController \in DOMAIN reqs
          /\ reqs'[abortController].status = "pending"]_vars

C3_Witness ==
  /\ ~isLoading
  /\ error = CancelMsg
  /\ abortController = NoCtl
  /\ \E r \in aborted : reqs[r].status = "pending"

\* C4: the completion of a stopped request never replaces the cancellation
\* message, however its network call ends.
C4_CancelMessageKept ==
  [][\A r \in DOMAIN reqs :
       (Completes(r) /\ r \in aborted /\ error = CancelMsg)
         => error' = CancelMsg]_vars

\* C5: a call whose cancellation handle was triggered while it was pending
\* ends with an AbortError, never with a result or another failure.
C5_AbortedCallEndsAborted ==
  \A r \in DOMAIN reqs :
    (r \in aborted /\ reqs[r].status = "done") => reqs[r].result = "AbortError"

\* C6: at most one request that has not been stopped is in flight.
C6_OneUnstoppedInFlight == Cardinality(Unstopped) <= 1

\* C7: when the latest started request completes, isLoading is false and no
\* handle is tracked afterwards, stopped or not.
C7_CompletionClears ==
  [][\A r \in DOMAIN reqs :
       (Completes(r) /\ r = Len(reqs))
         => (isLoading' = FALSE /\ abortController' = NoCtl)]_vars

\* C8: never more than 8 source images are held.
C8_AtMostEightImages == Len(originalImages) <= MaxImages

\* C9: an upload of k >= 1 files with n images held and n + k > 8 leaves the
\* source images, the file reads and the edit result as they were and sets
\* the maximum-of-8 error.
C9_ExcessUploadRejected ==
  [][\A files \in FileLists :
       (/\ Len(files) >= 1
        /\ Len(originalImages) + Len(files) > MaxImages
        /\ HandleFileChange(files) \/ HandleDrop(files))
         => /\ originalImages' = originalImages
            /\ batches' = batches
            /\ editedResult' = editedResult
            /\ error' = MaxImagesMsg]_vars

C9_Witness ==
  /\ error = MaxImagesMsg
  /\ editedResult # NullResult
  /\ Len(originalImages) = MaxFiles
  /\ \A b \in DOMAIN batches : batches[b].pending = 0

\* C10: handleEdit with no source image starts no request, sets the
\* need-an-image error and leaves isLoading, the tracked handle and the
\* edit result as they were.
C10_EditNeedsImage ==
  [][(Len(originalImages) = 0 /\ HandleEdit)
       => /\ reqs' = reqs
          /\ error' = NoImagesMsg
          /\ isLoading' = isLoading
          /\ abortController' = abortController
          /\ editedResult' = editedResult]_vars

C10_Witness ==
  /\ error = NoImagesMsg
  /\ originalImages = <<>>
  /\ editedResult # NullResult
  /\ abortController # NoCtl

\* C11: the prompt sent is the operation's default when the typed prompt is
\* empty or white space only, and the typed prompt without its leading and
\* trailing white space otherwise.
IsBlank(str) == \A i \in DOMAIN str : str[i] \in WhiteSpace

IsTrimOf(t, str) ==
  /\ t # <<>>
  /\ t[1] \notin WhiteSpace
  /\ t[Len(t)] \notin WhiteSpace
  /\ \E i \in 1..Len(str) :
       /\ i + Len(t) - 1 <= Len(str)
       /\ SubSeq(str, i, i + Len(t) - 1) = t
       /\ IsBlank(SubSeq(str, 1, i - 1))
       /\ IsBlank(SubSeq(str, i + Len(t), Len(str)))

PromptSentFor(typed, default, sent) ==
  IF IsBlank(typed) THEN sent = default ELSE IsTrimOf(sent, typed)

C11_EffectivePrompt ==
  [][Len(reqs') = Len(reqs) + 1
       => LET req == reqs'[Len(reqs')]
          IN IF req.kind = "generate"
               THEN PromptSentFor(generatePrompt, DefaultGeneratePrompt,
                                  req.prompt)
               ELSE PromptSentFor(editPrompt, DefaultEditPrompt,
                                  req.prompt)]_vars

C11_Witness ==
  \E r \in DOMAIN reqs :
    /\ reqs[r].kind = "edit"
    /\ reqs[r].prompt = DefaultEditPrompt
    /\ editPrompt # <<>>
    /\ budget.prompts = 0

\* C12: a request that is still the tracked, unstopped one when the proxy
\* answers with a success response carrying an image reference ends with
\* exactly that reference (and caption) stored, isLoading false and no error.
IsSuccessWithImage(o) ==
  ~o.rejects /\ ResponseOk(o.status) /\ o.bodyJson /\ Truthy(o.imageUrl)

C12_SuccessStored ==
  [][\A r \in DOMAIN reqs : \A o \in FetchOutcomes :
       (/\ abortController = r
        /\ r \notin aborted
        /\ IsSuccessWithImage(o)
        /\ CompleteRequest(r, o))
         => /\ isLoading' = FALSE
            /\ error' = Null
            /\ IF reqs[r].kind = "generate"
                  THEN generatedImageUrl' = o.imageUrl
                  ELSE editedResult' = [imageUrl |-> o.imageUrl,
                                        text |-> o.text]]_vars

\* C13: a non-success status N surfaces the body's error field when the
\* body is JSON with a non-empty error field and "Request failed with status
\* N" otherwise; isLoading ends false and no result is stored.
C13_HttpErrorSurfaced ==
  [][\A r \in DOMAIN reqs : \A o \in FetchOutcomes :
       (/\ ~o.rejects
        /\ ~ResponseOk(o.status)
        /\ CompleteRequest(r, o))
         => /\ error' = IF o.bodyJson /\ o.bodyError \notin {Null, ""}
                           THEN o.bodyError
                           ELSE "Request failed with status "
                                  \o ToString(o.status)
            /\ isLoading' = FALSE
            /\ UNCHANGED <<generatedImageUrl, editedResult>>]_vars

C13_Witness ==
  /\ error = "model declined"
  /\ ~isLoading
  /\ generatedImageUrl = Null
  /\ \E r \in DOMAIN reqs : reqs[r].status = "done" /\ reqs[r].result = "Error"

\* C14: whenever the network call of a started request ends, on the success
\* path, a failure path or after a stop, the state that follows has
\* isLoading false.
C14_CompletionEndsLoading ==
  [][\A r \in DOMAIN reqs : Completes(r) => isLoading' = FALSE]_vars

C14_Witness ==
  /\ ~isLoading
  /\ \E r \in DOMAIN reqs :
       reqs[r].status = "done" /\ reqs[r].result \notin {Null, "returned"}
  /\ \E r \in aborted : reqs[r].status = "done"

\* C15: the images of an accepted upload of k files enter the source image
\* set in one step only, all k together, when the last of its k reads
\* finishes; before that step the set holds none of them, and afterwards
\* their number changes only by the removal of one image.
BatchCount(images, b) ==
  Cardinality({ i \in DOMAIN images : images[i].batch = b })

C15_BatchAppendedAtomically ==
  [][\A b \in DOMAIN batches :
       BatchCount(originalImages', b) # BatchCount(originalImages, b)
         => \/ /\ BatchCount(originalImages, b) = 0
               /\ BatchCount(originalImages', b) = batches[b].nfiles
               /\ batches[b].pending = 1
               /\ batches'[b].pending = 0
               /\ Len(batches'[b].newImages) = batches[b].nfiles
               /\ Len(originalImages') = Len(originalImages) + batches[b].nfiles
            \/ /\ batches[b].pending = 0
               /\ BatchCount(originalImages', b)
                    = BatchCount(originalImages, b) - 1
               /\ Len(originalImages') = Len(originalImages) - 1]_vars

C15_Witness ==
  /\ \E b \in DOMAIN batches :
       /\ batches[b].nfiles >= 2
       /\ BatchCount(originalImages, b) = batches[b].nfiles
  /\ \E b \in DOMAIN batches :
       /\ batches[b].pending >= 1
       /\ Len(batches[b].newImages) >= 1
       /\ BatchCount(originalImages, b) = 0

\* ---------------------------------------------------- proxy properties
CallsBy(h) == { i \in DOMAIN serviceCalls : serviceCalls[i].handler = h }

Done(h) == handlers[h].pc = "done"

InitFailed(h) ==
  /\ ~handlers[h].initialised
  /\ handlers[h].resp.status = 500
  /\ handlers[h].resp.error \in {NoSecretNameMsg, SecretFailMsg}

\* C16: every request whose method is not POST is answered with status 405
\* and an Allow header naming POST, and the model service is not called.
C16_NonPostRejected ==
  \A h \in DOMAIN handlers :
    handlers[h].req.method # "POST"
      => /\ CallsBy(h) = {}
         /\ Done(h) => /\ handlers[h].resp.status = 405
                        /\ handlers[h].resp.allow = "POST"

\* C16 (amended): a request whose method is not POST never reaches the model
\* service; it is answered with 405 and Allow: POST when the client was
\* initialised for it, and with 500 when the credential could not be
\* resolved.
C16_NonPostRejectedOnceInitialised ==
  \A h \in DOMAIN handlers :
    handlers[h].req.method # "POST"
      => /\ CallsBy(h) = {}
         /\ Done(h) => IF handlers[h].initialised
                          THEN /\ handlers[h].resp.status = 405
                               /\ handlers[h].resp.allow = "POST"
                          ELSE InitFailed(h)

C16_Witness ==
  \E h \in DOMAIN handlers :
    /\ handlers[h].req.method = "GET"
    /\ Done(h)
    /\ handlers[h].initialised
    /\ handlers[h].resp.status = 405

IsObjectPost(h) ==
  handlers[h].req.method = "POST" /\ handlers[h].req.body.kind = "object"

IsErrorBody(resp) == resp.error \notin {Undefined, ""} /\ resp.imageUrl = Undefined

\* C17: every POST request whose JSON body has no action field, or one that
\* is neither 'generate' nor 'edit', is answered with status 400 and an
\* error body, and the model service is not called.
C17_InvalidActionRejected ==
  \A h \in DOMAIN handlers :
    (IsObjectPost(h) /\ handlers[h].req.body.action \notin {"generate", "edit"})
      => /\ CallsBy(h) = {}
         /\ Done(h) => /\ handlers[h].resp.status = 400
                        /\ IsErrorBody(handlers[h].resp)

\* C17 (amended): such a request never reaches the model service; it is
\* answered with 400 and an error body when the client was initialised for
\* it, and with 500 when the credential could not be resolved.
C17_InvalidActionRejectedOnceInitialised ==
  \A h \in DOMAIN handlers :
    (IsObjectPost(h) /\ handlers[h].req.body.action \notin {"generate", "edit"})
      => /\ CallsBy(h) = {}
         /\ Done(h) => IF handlers[h].initialised
                          THEN /\ handlers[h].resp.status = 400
                               /\ IsErrorBody(handlers[h].resp)
                          ELSE InitFailed(h)

C17_Witness ==
  \E h \in DOMAIN handlers :
    /\ IsObjectPost(h)
    /\ handlers[h].req.body.action = "delete"
    /\ Done(h)
    /\ handlers[h].initialised
    /\ handlers[h].resp.status = 400

IsGeneratePost(h) ==
  IsObjectPost(h) /\ handlers[h].req.body.action = "generate"

OneGenerateCall(h) ==
  /\ Cardinality(CallsBy(h)) = 1
  /\ \A i \in CallsBy(h) :
       /\ serviceCalls[i].call.api = "generateImages"
       /\ serviceCalls[i].call.numberOfImages = 1

\* C18: a POST request with action 'generate' whose prompt is missing or
\* empty is answered with status 400 without a model service call; with a
\* non-empty prompt the handler calls the service exactly once, asking for
\* exactly one image.
C18_GeneratePromptRequired ==
  \A h \in DOMAIN handlers :
    IsGeneratePost(h)
      => IF Falsy(handlers[h].req.body.prompt)
           THEN /\ CallsBy(h) = {}
                /\ Done(h) => handlers[h].resp.status = 400
           ELSE /\ Cardinality(CallsBy(h)) <= 1
                /\ Done(h) => OneGenerateCall(h)

\* C18 (amended): as C18 for every request the client was initialised for;
\* a request for which the credential could not be resolved is answered
\* with 500 without a model service call.
C18_GeneratePromptRequiredOnceInitialised ==
  \A h \in DOMAIN handlers :
    IsGeneratePost(h)
      => IF Done(h) /\ ~handlers[h].initialised
           THEN CallsBy(h) = {} /\ InitFailed(h)
         ELSE IF Falsy(handlers[h].req.body.prompt)
           THEN /\ CallsBy(h) = {}
                /\ Done(h) => handlers[h].resp.status = 400
           ELSE /\ Cardinality(CallsBy(h)) <= 1
                /\ handlers[h].pc \in {"service", "done"} => OneGenerateCall(h)

C18_Witness ==
  /\ \E h \in DOMAIN handlers :
       /\ IsGeneratePost(h)
       /\ handlers[h].req.body.prompt = ""
       /\ handlers[h].initialised
       /\ Done(h)
       /\ handlers[h].resp.status = 400
  /\ \E h \in DOMAIN handlers :
       /\ IsGeneratePost(h)
       /\ handlers[h].req.body.prompt = "a cat"
       /\ Done(h)
       /\ OneGenerateCall(h)

\* C19: a POST request with action 'edit' whose prompt is missing or empty,
\* or whose image list is missing or empty, is answered with status 400
\* without a model service call (stated for the requests the client was
\* initialised for).
C19_EditFieldsRequired ==
  \A h \in DOMAIN handlers :
    (/\ IsObjectPost(h)
     /\ handlers[h].req.body.action = "edit"
     /\ handlers[h].initialised
     /\ \/ Falsy(handlers[h].req.body.prompt)
        \/ ~handlers[h].req.body.images.defined
        \/ handlers[h].req.body.images.items = <<>>)
      => /\ CallsBy(h) = {}
         /\ Done(h) => handlers[h].resp.status = 400

AnswersWithoutImage(call, answer) ==
  /\ ~answer.rejects
  /\ IF call.api = "generateImages"
       THEN \/ answer.generatedImages = <<>>
            \/ answer.generatedImages[1].imageBytes \in {Undefined, ""}
       ELSE \/ ~answer.hasParts
            \/ \A i \in DOMAIN answer.parts : ~answer.parts[i].hasInline

\* C20: when the model service answers without an image, the handler
\* responds with status 500 and a body {error: message} with a non-empty
\* message, never with status 200.
C20_NoImageIs500 ==
  \A h \in DOMAIN handlers :
    \A i \in CallsBy(h) :
      (Done(h) /\ AnswersWithoutImage(serviceCalls[i].call, handlers[h].answer))
        => /\ handlers[h].resp.status = 500
           /\ IsErrorBody(handlers[h].resp)

C20_Witness ==
  /\ \E h \in DOMAIN handlers :
       \E i \in CallsBy(h) :
         /\ Done(h)
         /\ serviceCalls[i].call.api = "generateContent"
         /\ handlers[h].answer.hasParts
         /\ handlers[h].answer.parts # <<>>
         /\ AnswersWithoutImage(serviceCalls[i].call, handlers[h].answer)
         /\ handlers[h].resp.error = NoInlineImageMsg

\* C21: the result image of an edit is built from the first inline-image
\* part of the returned parts, and the result text is the non-empty text
\* parts joined by newlines in their order (null when there is none).
FirstInline(parts) ==
  parts[CHOOSE i \in DOMAIN parts :
          /\ parts[i].hasInline
          /\ \A j \in 1..(i - 1) : ~parts[j].hasInline]

RECURSIVE JoinTexts(_)
JoinTexts(parts) ==
  IF parts = <<>> THEN Null
  ELSE LET rest == JoinTexts(SubSeq(parts, 1, Len(parts) - 1))
           last == parts[Len(parts)]
       IN IF last.hasInline \/ last.text \in {Undefined, ""} THEN rest
          ELSE IF rest = Null THEN last.text
          ELSE rest \o "\n" \o last.text

C21_FirstImageAndJoinedText ==
  \A h \in DOMAIN handlers :
    \A i \in CallsBy(h) :
      (/\ Done(h)
       /\ serviceCalls[i].call.api = "generateContent"
       /\ handlers[h].resp.status = 200)
        => LET parts == handlers[h].answer.parts
           IN /\ handlers[h].resp.imageUrl
                   = "data:" \o FirstInline(parts).mimeType \o ";base64,"
                       \o FirstInline(parts).data
              /\ handlers[h].resp.text = JoinTexts(parts)

\* C22: every handler invocation that has returned did so with a response
\* of status 200, 400, 405 or 500; a failure of the credential resolution,
\* of the body parsing or of the service call gives a 500 response that is
\* labelled JSON and whose error field holds a non-empty message. An
\* invocation that has not returned is awaiting the secret store or the
\* model service.
IsJsonError500(resp) ==
  /\ resp.status = 500
  /\ resp.contentType = "application/json"
  /\ IsErrorBody(resp)

C22_HandlerAlwaysResponds ==
  \A h \in DOMAIN handlers :
    /\ handlers[h].pc \in {"secret", "service", "done"}
    /\ Done(h)
         => /\ handlers[h].resp.status \in {200, 400, 405, 500}
            /\ ~handlers[h].initialised => IsJsonError500(handlers[h].resp)
            /\ (/\ handlers[h].initialised
                /\ handlers[h].req.method = "POST"
                /\ handlers[h].req.body.kind \in {"text", "null"})
                 => IsJsonError500(handlers[h].resp)
            /\ (CallsBy(h) # {} /\ handlers[h].answer.rejects)
                 => IsJsonError500(handlers[h].resp)

C22_Witness ==
  \E h \in DOMAIN handlers :
    /\ Done(h)
    /\ CallsBy(h) # {}
    /\ handlers[h].answer.rejects
    /\ ~handlers[h].answer.thrown.isError
    /\ handlers[h].resp.error = UnknownErrorMsg

\* C23: two handler invocations that got the same request, the same outcome
\* of the client initialisation (done or failed) and the same behaviour of
\* the model service return the same response (status, headers, body),
\* whatever credential value each of them worked with.
SameButCredential(g, h) ==
  /\ handlers[g].req = handlers[h].req
  /\ handlers[g].initialised = handlers[h].initialised
  /\ handlers[g].answer = handlers[h].answer
  /\ (CallsBy(g) = {}) = (CallsBy(h) = {})

C23_ResponseIndependentOfCredential ==
  \A g \in DOMAIN handlers : \A h \in DOMAIN handlers :
    (Done(g) /\ Done(h) /\ SameButCredential(g, h))
      => handlers[g].resp = handlers[h].resp

C23_Witness ==
  \E g \in DOMAIN handlers : \E h \in DOMAIN handlers :
    /\ Done(g) /\ Done(h)
    /\ SameButCredential(g, h)
    /\ handlers[g].client.built /\ handlers[h].client.built
    /\ handlers[g].client.apiKey # handlers[h].client.apiKey
    /\ handlers[g].resp.status = 200
    /\ \E i \in CallsBy(g) : \E j \in CallsBy(h) :
         serviceCalls[i].apiKey # serviceCalls[j].apiKey

\* C24: every model service call is made by an invocation the client was
\* initialised for, with a key the secret store returned; an invocation
\* whose credential resolution failed is answered with a 500 error response
\* and makes no call; and as long as no resolution has succeeded (the secret
\* name is unset or no read has returned a key) no call has been made.
C24_ServiceOnlyWithCredential ==
  /\ \A i \in DOMAIN serviceCalls :
       /\ serviceCalls[i].apiKey \in ApiKeys
       /\ handlers[serviceCalls[i].handler].initialised
       /\ clientsBuilt >= 1
       /\ ai.built
  /\ \A h \in DOMAIN handlers :
       (Done(h) /\ ~handlers[h].initialised)
         => /\ CallsBy(h) = {}
            /\ handlers[h].resp.status = 500
            /\ IsErrorBody(handlers[h].resp)
  /\ (~secretName \/ clientsBuilt = 0)
       => /\ serviceCalls = <<>>
          /\ \A h \in DOMAIN handlers : Done(h) => InitFailed(h)

C24_Witness ==
  /\ \E h \in DOMAIN handlers :
       Done(h) /\ ~handlers[h].initialised /\ handlers[h].resp.error = SecretFailMsg
  /\ \E h \in DOMAIN handlers :
       handlers[h].initialised /\ CallsBy(h) # {} /\ Done(h)

\* ------------------------------------------- UI properties, continued
\* C25: when handleEdit passes its validation and starts an edit (at least
\* one image is held), the source image set is empty right after the start.
C25_EditStartClearsImages ==
  [][(Len(originalImages) > 0 /\ HandleEdit /\ isLoading')
       => originalImages' = <<>>]_vars

\* ------------------------------------ proxy and client request layer
\* The Response as fetch hands it to the client: its status, its
\* Content-Type (a Response built from a string without headers is
\* text/plain) and its body, which is always JSON text.
Nullable(v) == IF v = Undefined THEN Null ELSE v

ReceivedByClient(resp) ==
  FetchResponse(resp.status, resp.contentType = "application/json", TRUE,
                Nullable(resp.error), Nullable(resp.imageUrl),
                Nullable(resp.text))

\* C26: for every 200 response the handler produces for a generate or edit
\* request, the client call that receives it returns the imageUrl of its
\* body and does not throw.
C26_ClientAcceptsProxySuccess ==
  \A h \in DOMAIN handlers :
    \A i \in CallsBy(h) :
      (Done(h) /\ handlers[h].resp.status = 200)
        => LET outcome == ReceivedByClient(handlers[h].resp)
               result == IF serviceCalls[i].call.api = "generateImages"
                           THEN generateImage(outcome)
                           ELSE editImage(outcome)
           IN /\ ~result.throws
              /\ result.imageUrl = handlers[h].resp.imageUrl

\* ------------------------------------------- UI properties, continued
\* C27: in every reachable state, isLoading true implies that a
\* cancellation handle is tracked.
C27_LoadingHasHandle == isLoading => abortController # NoCtl

C27_Witness ==
  /\ isLoading
  /\ abortController # NoCtl
  /\ \E r \in aborted : reqs[r].status = "done"

\* ------------------------------------------------ proxy properties, continued
\* C28: the secret store is read at most once and at most one model-service
\* client is constructed, however the handled requests interleave.
C28_SingleInitialisation == secretFetches <= 1 /\ clientsBuilt <= 1

\* ------------------------------------------- UI properties, continued
EditInFlight ==
  /\ isLoading
  /\ \E r \in DOMAIN reqs : reqs[r].kind = "edit" /\ reqs[r].status = "pending"

\* C29: while an edit request is in flight and isLoading is true, no step
\* (file input, drop, completion of a pending file read, remove button)
\* changes the source image set.
C29_ImagesFrozenWhileEditing ==
  [][EditInFlight => originalImages' = originalImages]_vars

\* C30: every image held in the source image set was read successfully: it
\* has the data URL its reader produced.
C30_HeldImagesWereRead ==
  \A i \in DOMAIN originalImages : originalImages[i].dataUrl # Null
====
